---- MODULE Spec2Model ----
(***************************************************************************)
(* A model of common_migration/find_common_migrations.py: the graph        *)
(* builder (build_graph, hash_node), the ancestor walker (walk_up_nodes)   *)
(* and the reconciler (find_lowest_common_ancestor,                        *)
(* eliminate_dead_branches, find_reverse_migration_node).                  *)
(*                                                                         *)
(* Strings are sequences of character codes, so that the lexicographic     *)
(* order of names, the numeric prefix of a name and the canonical string   *)
(* that is hashed are computed as the program computes them.  A key is a   *)
(* pair <<app_name, name>>.  The digest is treated as injective: a hash is *)
(* the canonical token sequence that the program feeds to sha256, and the  *)
(* unset hash b'' is the empty sequence.                                   *)
(***************************************************************************)
EXTENDS Integers, Sequences, FiniteSets

(***************************************************************************)
(* Bounds of the model.                                                    *)
(***************************************************************************)
\* Largest number of dependencies one entry lists.
MaxDeps == 2
\* Largest number of entries of a dependency map of the single-build runs.
MaxBuildNodes == 3
\* Largest number of dependencies of all entries of such a map together.
MaxBuildEdges == 3

(***************************************************************************)
(* The strings the inputs are drawn from.                                  *)
(***************************************************************************)
\* The app names 'a' and 'b'.
TargetApp == <<97>>
OtherApp == <<98>>
Apps == {TargetApp, OtherApp}

\* The migration names '1_a', '02_b', '2_a' and '10_a'.
Name1a == <<49, 95, 97>>
Name02b == <<48, 50, 95, 98>>
Name2a == <<50, 95, 97>>
Name10a == <<49, 48, 95, 97>>
TargetNames == {Name1a, Name02b, Name2a, Name10a}
OtherNames == {Name1a}

None == <<>>
EmptyHash == <<>>

Sides == {"old", "new"}

(***************************************************************************)
(* Strings.                                                                *)
(***************************************************************************)
RECURSIVE StrLess(_, _)
\* Python's < on two strings.
StrLess(s, t) ==
    IF t = <<>> THEN FALSE
    ELSE IF s = <<>> THEN TRUE
    ELSE IF Head(s) # Head(t) THEN Head(s) < Head(t)
    ELSE StrLess(Tail(s), Tail(t))

RECURSIVE SplitHead(_)
\* name.split('_', 1)[0]: the characters before the first underscore.
SplitHead(name) ==
    IF name = <<>> \/ Head(name) = 95 THEN <<>>
    ELSE <<Head(name)>> \o SplitHead(Tail(name))

RECURSIVE ParseInt(_, _)
\* int() of a string of decimal digits, most significant digit first.
ParseInt(digits, acc) ==
    IF digits = <<>> THEN acc
    ELSE ParseInt(Tail(digits), acc * 10 + (Head(digits) - 48))

\* MigrationNode.number of the node with the given key.
Number(key) == ParseInt(SplitHead(key[2]), 0)

\* Python's < on two (app_name, name) tuples.
KeyLess(k1, k2) ==
    IF k1[1] # k2[1] THEN StrLess(k1[1], k2[1]) ELSE StrLess(k1[2], k2[2])

\* Python's < on the sort keys (node.number, node.name) of walk_up_nodes.
HeapKeyLess(k1, k2) ==
    IF Number(k1) # Number(k2) THEN Number(k1) < Number(k2)
    ELSE StrLess(k1[2], k2[2])

(***************************************************************************)
(* Sequences.                                                              *)
(***************************************************************************)
Range(s) == {s[i] : i \in DOMAIN s}

RECURSIVE InsertHeapByName(_, _)
\* The insertion of a sort on the name alone.
InsertHeapByName(x, s) ==
    IF s = <<>> THEN <<x>>
    ELSE IF StrLess(x[2], Head(s)[2]) THEN <<x>> \o s
    ELSE <<Head(s)>> \o InsertHeapByName(x, Tail(s))

RECURSIVE InsertHeap(_, _)
\* x inserted into the sorted sequence s after every element not above it.
InsertHeap(x, s) ==
    IF s = <<>> THEN <<x>>
    ELSE IF HeapKeyLess(x, Head(s)) THEN <<x>> \o s
    ELSE <<Head(s)>> \o InsertHeap(x, Tail(s))

RECURSIVE SortHeap(_)
\* heap.sort(key=lambda node: (node.number, node.name)): a stable sort.
SortHeap(s) ==
    IF s = <<>> THEN <<>>
    ELSE InsertHeap(s[Len(s)], SortHeap(SubSeq(s, 1, Len(s) - 1)))

RECURSIVE SortedKeys(_)
\* sorted(app_migration_set): the keys of a set in ascending tuple order.
SortedKeys(S) ==
    IF S = {} THEN <<>>
    ELSE LET least == CHOOSE k \in S : \A other \in S \ {k} : KeyLess(k, other)
         IN  <<least>> \o SortedKeys(S \ {least})

RECURSIVE Flatten(_)
\* The tokens of ' '.join(string for key in keys for string in key).
Flatten(keys) ==
    IF keys = <<>> THEN <<>>
    ELSE <<Head(keys)[1], Head(keys)[2]>> \o Flatten(Tail(keys))

(***************************************************************************)
(* The ancestor walker.  A graph is a record of the fields of its nodes,   *)
(* each a function of the node's key: hash, dependencies, dependents.      *)
(***************************************************************************)
RECURSIVE AddDependenciesOfAnyApp(_, _, _, _)
\* The loop without its test of the app of the dependency.
AddDependenciesOfAnyApp(g, app, deps, acc) ==
    IF deps = <<>> THEN acc
    ELSE LET dependency == Head(deps)
         IN  IF g.hash[dependency] \notin acc.explored
             THEN AddDependenciesOfAnyApp(g, app, Tail(deps),
                      [explored |-> acc.explored \cup {g.hash[dependency]},
                       heap |-> Append(acc.heap, dependency)])
             ELSE AddDependenciesOfAnyApp(g, app, Tail(deps), acc)

RECURSIVE AddDependencies(_, _, _, _)
\* The loop over node.dependencies of walk_up_nodes: every dependency of the
\* app whose hash is not yet explored is marked explored and appended.
AddDependencies(g, app, deps, acc) ==
    IF deps = <<>> THEN acc
    ELSE LET dependency == Head(deps)
         IN  IF dependency[1] = app /\ g.hash[dependency] \notin acc.explored
             THEN AddDependencies(g, app, Tail(deps),
                      [explored |-> acc.explored \cup {g.hash[dependency]},
                       heap |-> Append(acc.heap, dependency)])
             ELSE AddDependencies(g, app, Tail(deps), acc)

RECURSIVE WalkLoop(_, _, _, _, _)
\* The while loop of walk_up_nodes; out is the sequence yielded so far.
WalkLoop(g, app, explored, heap, out) ==
    IF heap = <<>> THEN out
    ELSE LET node == heap[Len(heap)]
             added == AddDependencies(g, app, g.dependencies[node],
                          [explored |-> explored,
                           heap |-> SubSeq(heap, 1, Len(heap) - 1)])
         IN  WalkLoop(g, app, added.explored, SortHeap(added.heap),
                      Append(out, node))

\* walk_up_nodes(bottom_node, app_name): the sequence of nodes it yields.
walk_up_nodes(g, bottom_node, app) ==
    WalkLoop(g, app, {g.hash[bottom_node]}, <<bottom_node>>, <<>>)

(***************************************************************************)
(* The subgraph hasher.                                                    *)
(***************************************************************************)
\* The hash of the ancestors of the node without the node itself.
hash_of_ancestors(g, node, app) ==
    Flatten(SortedKeys(Range(walk_up_nodes(g, node, app)) \ {node}))

\* hash_node(node, app_name), the digest being the canonical string itself.
hash_node(g, node, app) ==
    Flatten(SortedKeys(Range(walk_up_nodes(g, node, app))))

(***************************************************************************)
(* The graph builder.  A dependency map is a record of the insertion order *)
(* of its keys and of the dependency list of each key.                     *)
(***************************************************************************)
\* The inner loop cut short after the first key the value names.
AppendReverseOfFirst(reverse, key, value) ==
    IF value = <<>> THEN reverse
    ELSE LET reverse_key == Head(value)
             list == IF reverse_key \in DOMAIN reverse
                     THEN reverse[reverse_key] ELSE <<>>
         IN  [k \in DOMAIN reverse \cup {reverse_key} |->
                 IF k = reverse_key THEN Append(list, key) ELSE reverse[k]]

RECURSIVE AppendReverse(_, _, _)
\* The inner loop of the reverse map: key is appended to the list of every
\* key its value names.
AppendReverse(reverse, key, value) ==
    IF value = <<>> THEN reverse
    ELSE LET reverse_key == Head(value)
             list == IF reverse_key \in DOMAIN reverse
                     THEN reverse[reverse_key] ELSE <<>>
         IN  AppendReverse(
                 [k \in DOMAIN reverse \cup {reverse_key} |->
                     IF k = reverse_key THEN Append(list, key) ELSE reverse[k]],
                 key, Tail(value))

RECURSIVE ReverseMigrations(_, _, _)
\* reverse_migrations: the map referencing everything in reverse.
ReverseMigrations(raw, keys, reverse) ==
    IF keys = <<>> THEN reverse
    ELSE ReverseMigrations(raw, Tail(keys),
             AppendReverse(reverse, Head(keys), raw.deps[Head(keys)]))

\* node.dependents as the first loop of build_graph leaves it.
Dependents(raw, key) ==
    LET reverse_migrations == ReverseMigrations(raw, raw.order, <<>>)
    IN  IF key \in DOMAIN reverse_migrations
        THEN reverse_migrations[key] ELSE <<>>

\* The graph after the first loop of build_graph: every hash is still b''.
WiredGraph(raw) ==
    [hash |-> [key \in Range(raw.order) |-> EmptyHash],
     dependencies |-> [key \in Range(raw.order) |-> raw.deps[key]],
     dependents |-> [key \in Range(raw.order) |-> Dependents(raw, key)]]

\* The test without its filter on the app of the dependents.
IsLatestOfAnyApp(g, app, key) ==
    /\ key[1] = app
    /\ g.dependents[key] = <<>>

\* The test of build_graph for the latest migration.
IsLatest(g, app, key) ==
    /\ key[1] = app
    /\ ~ \E i \in DOMAIN g.dependents[key] : g.dependents[key][i][1] = app

RECURSIVE LatestNode(_, _, _, _)
\* latest_node after the first loop: the last node in insertion order that
\* passes the test, None if there is none.
LatestNode(g, app, keys, latest_node) ==
    IF keys = <<>> THEN latest_node
    ELSE LatestNode(g, app, Tail(keys),
             IF IsLatest(g, app, Head(keys)) THEN Head(keys) ELSE latest_node)

RECURSIVE HashNodes(_, _, _)
\* The second loop of build_graph: the nodes of the app are hashed one after
\* the other, in insertion order, each on the graph as hashed so far.
HashNodes(g, app, keys) ==
    IF keys = <<>> THEN g
    ELSE LET node == Head(keys)
         IN  IF node[1] = app
             THEN HashNodes([g EXCEPT !.hash[node] = hash_node(g, node, app)],
                            app, Tail(keys))
             ELSE HashNodes(g, app, Tail(keys))

\* build_graph(app_name, raw_migrations): the graph it builds and the node it
\* returns, None when it raises ValueError('No latest/bottom migration found!').
build_graph(app, raw) ==
    LET wired == WiredGraph(raw)
    IN  [graph |-> HashNodes(wired, app, raw.order),
         latest_node |-> LatestNode(wired, app, raw.order, None)]

(***************************************************************************)
(* The reconciler.                                                         *)
(***************************************************************************)
\* {node.hash for node in walk_up_nodes(bottom_node, app_name)}
WalkedHashes(g, bottom_node, app) ==
    {g.hash[node] : node \in Range(walk_up_nodes(g, bottom_node, app))}

RECURSIVE LastCommon(_, _, _)
\* The search without its return inside the loop: the last walked node whose
\* hash is in the set.
LastCommon(g, walked, new_node_hash_set) ==
    IF walked = <<>> THEN None
    ELSE IF LastCommon(g, Tail(walked), new_node_hash_set) # None
         THEN LastCommon(g, Tail(walked), new_node_hash_set)
    ELSE IF g.hash[Head(walked)] \in new_node_hash_set THEN Head(walked)
    ELSE None

RECURSIVE FirstCommon(_, _, _)
\* The for loop of find_lowest_common_ancestor over the nodes walked from the
\* old branch: the first one whose hash is in the set, None if there is none.
FirstCommon(g, walked, new_node_hash_set) ==
    IF walked = <<>> THEN None
    ELSE IF g.hash[Head(walked)] \in new_node_hash_set THEN Head(walked)
    ELSE FirstCommon(g, Tail(walked), new_node_hash_set)

\* The search comparing (app_name, name) in place of the hash.
CommonByName(g_old, old_branch_node, g_new, new_branch_node, app) ==
    LET walked == walk_up_nodes(g_old, old_branch_node, app)
        names == Range(walk_up_nodes(g_new, new_branch_node, app))
        hits == {i \in DOMAIN walked : walked[i] \in names}
    IN  IF hits = {} THEN None
        ELSE walked[CHOOSE i \in hits : \A j \in hits : i <= j]

\* find_lowest_common_ancestor(old_branch_node, new_branch_node, app_name)
find_lowest_common_ancestor(g_old, old_branch_node, g_new, new_branch_node, app) ==
    FirstCommon(g_old, walk_up_nodes(g_old, old_branch_node, app),
                WalkedHashes(g_new, new_branch_node, app))

\* The condition of eliminate_dead_branches on a walked node: some dependent
\* of the app has a hash outside the marked set.
HasDeadBranch(g, app, node, marked_set) ==
    \E i \in DOMAIN g.dependents[node] :
        /\ g.dependents[node][i][1] = app
        /\ g.hash[g.dependents[node][i]] \notin marked_set

RECURSIVE SweepToFirst(_, _, _, _, _)
\* The sweep that stops at the first walked node that satisfies the condition.
SweepToFirst(g, app, walked, marked_set, selected_node) ==
    IF walked = <<>> THEN selected_node
    ELSE IF HasDeadBranch(g, app, Head(walked), marked_set) THEN Head(walked)
    ELSE SweepToFirst(g, app, Tail(walked), marked_set, selected_node)

RECURSIVE Sweep(_, _, _, _, _)
\* The for loop of eliminate_dead_branches: selected_node becomes every walked
\* node that satisfies the condition, in turn.
Sweep(g, app, walked, marked_set, selected_node) ==
    IF walked = <<>> THEN selected_node
    ELSE Sweep(g, app, Tail(walked), marked_set,
               IF HasDeadBranch(g, app, Head(walked), marked_set)
               THEN Head(walked) ELSE selected_node)

\* eliminate_dead_branches(lca_node, app_name)
eliminate_dead_branches(g, lca, app) ==
    Sweep(g, app, walk_up_nodes(g, lca, app), WalkedHashes(g, lca, app), lca)

\* The search that takes as old the snapshot whose branch node has the lower
\* key, whichever way round the two are passed.
ReverseNodeOfLowerBranch(g_old, old_node, g_new, new_node, app) ==
    LET swap == HeapKeyLess(new_node, old_node)
        g_a == IF swap THEN g_new ELSE g_old
        a_node == IF swap THEN new_node ELSE old_node
        g_b == IF swap THEN g_old ELSE g_new
        b_node == IF swap THEN old_node ELSE new_node
        lca == find_lowest_common_ancestor(g_a, a_node, g_b, b_node, app)
    IN  IF lca = None THEN None ELSE eliminate_dead_branches(g_a, lca, app)

\* find_reverse_migration_node(old_node, new_node, app_name)
find_reverse_migration_node(g_old, old_node, g_new, new_node, app) ==
    LET lca == find_lowest_common_ancestor(g_old, old_node, g_new, new_node, app)
    IN  IF lca = None THEN None ELSE eliminate_dead_branches(g_old, lca, app)

(***************************************************************************)
(* The dependency maps the runs start from.                                *)
(***************************************************************************)
TargetKeys == {<<TargetApp, name>> : name \in TargetNames}
OtherKeys == {<<OtherApp, name>> : name \in OtherNames}

\* The sequences without repetition of at most n elements of S.
InjSeqs(S, n) ==
    {s \in UNION {[1..m -> S] : m \in 0..n} :
        \A i, j \in DOMAIN s : i # j => s[i] # s[j]}

RECURSIVE Reverse(_)
Reverse(s) == IF s = <<>> THEN <<>> ELSE Append(Reverse(Tail(s)), Head(s))

\* The keys in the order the repository's tests write their maps: every
\* migration after the lower-numbered ones.
TestOrder(K) == SortHeap(SortedKeys(K))

\* The keys in the order create_migration_maps inserts them: app after app,
\* the file names of an app from the highest to the lowest.
ProductionOrder(K) ==
    Reverse(SortedKeys({k \in K : k[1] = TargetApp}))
        \o Reverse(SortedKeys({k \in K : k[1] = OtherApp}))

\* f extended by the value d at k.
Extend(f, k, d) == [x \in DOMAIN f \cup {k} |-> IF x = k THEN d ELSE f[x]]

RECURSIVE DepsOver(_, _)
\* The functions that give every key of the sequence keys one of the
\* dependency lists allowed[key].
DepsOver(keys, allowed) ==
    IF keys = <<>> THEN {<<>>}
    ELSE {Extend(f, Head(keys), d) :
             f \in DepsOver(Tail(keys), allowed), d \in allowed[Head(keys)]}

\* A snapshot's dependency lists: a migration of the target app depends on
\* lower-numbered migrations of the app and on migrations of other apps,
\* listed in ascending order; a migration of another app depends on at most
\* one migration of the target app.
SnapshotDepsOf(K, k) ==
    IF k[1] = TargetApp
    THEN {deps \in InjSeqs({d \in K : d[1] = TargetApp => HeapKeyLess(d, k)}, MaxDeps) :
             \A i \in DOMAIN deps : i > 1 => KeyLess(deps[i - 1], deps[i])}
    ELSE InjSeqs(K \cap TargetKeys, 1)

\* The maps of a snapshot over the key sets KeySets, in either insertion order.
SnapshotMapsOver(KeySets) ==
    UNION {
        {[order |-> order, deps |-> deps] :
            order \in {TestOrder(K), ProductionOrder(K)},
            deps \in DepsOver(SortedKeys(K), [k \in K |-> SnapshotDepsOf(K, k)])} :
        K \in KeySets}

\* The snapshots the two-snapshot runs start from: any migrations of the
\* target app alone, or up to two of them with a migration of another app.
MixedKeys == {<<TargetApp, Name1a>>, <<TargetApp, Name2a>>} \cup OtherKeys

SnapshotMaps ==
    SnapshotMapsOver(SUBSET TargetKeys \cup SUBSET MixedKeys)

RECURSIVE DepsWithin(_, _, _)
\* The functions that give every key of the sequence keys a dependency list
\* over K, the lists holding at most budget dependencies together.
DepsWithin(K, keys, budget) ==
    IF keys = <<>> THEN {<<>>}
    ELSE UNION {
             {Extend(f, Head(keys), d) :
                 f \in DepsWithin(K, Tail(keys), budget - Len(d))} :
             d \in InjSeqs(K, IF budget < MaxDeps THEN budget ELSE MaxDeps)}

\* The insertion orders of the keys K.
InsertionOrders(K) == {s \in [1..Cardinality(K) -> K] : Range(s) = K}

\* The key sets of a single build: three migrations of the target app, two
\* of them with the same number, and a migration of another app.
BuildKeys == (TargetKeys \ {<<TargetApp, Name10a>>}) \cup OtherKeys

BuildKeySets == {K \in SUBSET BuildKeys : Cardinality(K) <= MaxBuildNodes}

EmptyMap == [order |-> <<>>, deps |-> <<>>]
EmptyGraph == [hash |-> <<>>, dependencies |-> <<>>, dependents |-> <<>>]

(***************************************************************************)
(* The state: the two dependency maps (the output of create_migration_maps *)
(* for the old and the new project directory), the app asked for, and the  *)
(* locals of main and find_reverse_migration_node as the run assigns them. *)
(***************************************************************************)
VARIABLES
    raw_migrations,   \* side -> the dependency map read for it
    app_name,         \* the app asked for
    graph,            \* side -> the graph build_graph built for it
    branch_node,      \* side -> old_node / new_node, the node build_graph returned
    lca_node,         \* lca_node of find_reverse_migration_node
    reverse_node,     \* reverse_node of main
    swept,            \* whether eliminate_dead_branches has run
    error,            \* the message of the exception that ended the run
    printed,          \* the lines main has printed
    bottom_node,      \* bottom_node of a call of walk_up_nodes
    explored_set,     \* explored_set of that call
    heap,             \* heap of that call
    walked,           \* the nodes that call has yielded so far
    pc                \* the position of the run

walk_locals == <<bottom_node, explored_set, heap, walked>>

vars == <<raw_migrations, app_name, graph, branch_node, lca_node,
          reverse_node, swept, error, printed, walk_locals, pc>>

NoLatestError == "No latest/bottom migration found!"

InitLocals ==
    /\ graph = [side \in Sides |-> EmptyGraph]
    /\ branch_node = [side \in Sides |-> None]
    /\ lca_node = None
    /\ reverse_node = None
    /\ swept = FALSE
    /\ error = ""
    /\ printed = <<>>
    /\ bottom_node = None
    /\ explored_set = {}
    /\ heap = <<>>
    /\ walked = <<>>
    /\ pc = "read_old"

Init ==
    /\ \E old_map \in SnapshotMaps, new_map \in SnapshotMaps :
           raw_migrations = [old |-> old_map, new |-> new_map]
    /\ app_name = TargetApp
    /\ InitLocals

\* read_migration_data for one side: build_graph on the side's map.
BuildGraph(side) ==
    /\ pc = "read_" \o side
    /\ \E built \in {build_graph(app_name, raw_migrations[side])} :
           IF built.latest_node = None
           THEN /\ error' = NoLatestError
                /\ pc' = "failed"
                /\ UNCHANGED <<graph, branch_node>>
           ELSE /\ graph' = [graph EXCEPT ![side] = built.graph]
                /\ branch_node' = [branch_node EXCEPT ![side] = built.latest_node]
                /\ pc' = IF side = "old" THEN "read_new" ELSE "search"
                /\ UNCHANGED error
    /\ UNCHANGED <<raw_migrations, app_name, lca_node, reverse_node, swept,
                   printed, walk_locals>>

\* find_reverse_migration_node up to its test of lca_node.
FindLowestCommonAncestor ==
    /\ pc = "search"
    /\ lca_node' = find_lowest_common_ancestor(graph["old"], branch_node["old"],
                       graph["new"], branch_node["new"], app_name)
    /\ pc' = IF lca_node' = None THEN "done" ELSE "descend"
    /\ UNCHANGED <<raw_migrations, app_name, graph, branch_node, reverse_node,
                   swept, error, printed, walk_locals>>

\* find_reverse_migration_node from its call of eliminate_dead_branches.
EliminateDeadBranches ==
    /\ pc = "descend"
    /\ reverse_node' = eliminate_dead_branches(graph["old"], lca_node, app_name)
    /\ swept' = TRUE
    /\ pc' = "done"
    /\ UNCHANGED <<raw_migrations, app_name, graph, branch_node, lca_node, error,
                   printed, walk_locals>>

\* The end of main: the name of the node found is printed; when none was
\* found nothing is printed and main returns.
PrintReverseNode ==
    /\ pc = "done"
    /\ printed' = IF reverse_node # None
                  THEN Append(printed, reverse_node[2])
                  ELSE printed
    /\ pc' = "exited"
    /\ UNCHANGED <<raw_migrations, app_name, graph, branch_node, lca_node,
                   reverse_node, swept, error, walk_locals>>

Next ==
    \/ \E side \in Sides : BuildGraph(side)
    \/ FindLowestCommonAncestor
    \/ EliminateDeadBranches
    \/ PrintReverseNode

Spec == Init /\ [][Next]_vars

(***************************************************************************)
(* A single build_graph call on any dependency map whose dependencies name *)
(* keys of the map: any dependencies, cycles included, any insertion       *)
(* order, either app.                                                      *)
(***************************************************************************)
InitBuild ==
    /\ \E K \in BuildKeySets :
         \E deps \in DepsWithin(K, SortedKeys(K), MaxBuildEdges) :
           \E order \in InsertionOrders(K) :
             raw_migrations = [old |-> [order |-> order, deps |-> deps],
                               new |-> EmptyMap]
    /\ app_name \in Apps
    /\ InitLocals

NextBuild == BuildGraph("old")

SpecBuild == InitBuild /\ [][NextBuild]_vars

(***************************************************************************)
(* A call of walk_up_nodes on the graph of a single build_graph call, from *)
(* any node of the app, one iteration of its while loop at a time.         *)
(***************************************************************************)
RECURSIVE LinkedNodes(_, _)
\* The nodes a caller of build_graph can get hold of: those linked to the
\* nodes S by dependencies and dependents.
LinkedNodes(g, S) ==
    LET next == S \cup UNION {Range(g.dependencies[k]) \cup Range(g.dependents[k]) :
                                 k \in S}
    IN  IF next = S THEN S ELSE LinkedNodes(g, next)

\* The call: explored_set = {bottom_node.hash}, heap = [bottom_node].
WalkStart ==
    /\ pc = "read_new"
    /\ \E node \in {k \in LinkedNodes(graph["old"], {branch_node["old"]}) :
                        k[1] = app_name} :
           /\ bottom_node' = node
           /\ explored_set' = {graph["old"].hash[node]}
           /\ heap' = <<node>>
    /\ walked' = <<>>
    /\ pc' = "walking"
    /\ UNCHANGED <<raw_migrations, app_name, graph, branch_node, lca_node,
                   reverse_node, swept, error, printed>>

\* One iteration of the loop: the last node of the heap is popped and
\* yielded, its unexplored dependencies are appended, the heap is sorted.
WalkStep ==
    /\ pc = "walking"
    /\ heap # <<>>
    /\ \E added \in {AddDependencies(graph["old"], app_name,
                          graph["old"].dependencies[heap[Len(heap)]],
                          [explored |-> explored_set,
                           heap |-> SubSeq(heap, 1, Len(heap) - 1)])} :
           /\ explored_set' = added.explored
           /\ heap' = SortHeap(added.heap)
    /\ walked' = Append(walked, heap[Len(heap)])
    /\ UNCHANGED <<raw_migrations, app_name, graph, branch_node, lca_node,
                   reverse_node, swept, error, printed, bottom_node, pc>>

\* The loop ends when the heap is empty.
WalkReturn ==
    /\ pc = "walking"
    /\ heap = <<>>
    /\ pc' = "walked"
    /\ UNCHANGED <<raw_migrations, app_name, graph, branch_node, lca_node,
                   reverse_node, swept, error, printed, walk_locals>>

NextWalk ==
    \/ BuildGraph("old")
    \/ WalkStart
    \/ WalkStep
    \/ WalkReturn

SpecWalk == InitBuild /\ [][NextWalk]_vars

(***************************************************************************)
(* What the properties speak of, read off the dependency maps themselves.  *)
(***************************************************************************)
RECURSIVE ClosureFrom(_, _, _)
\* The least set that contains S and every dependency, inside the app, of
\* its elements.
ClosureFrom(raw, app, S) ==
    LET next == S \cup {d \in Range(raw.order) :
                           d[1] = app /\ \E k \in S : d \in Range(raw.deps[k])}
    IN  IF next = S THEN S ELSE ClosureFrom(raw, app, next)

\* The same-component ancestor closure of a key, the key included.
Closure(raw, app, key) == ClosureFrom(raw, app, {key})

\* The same-component dependents of a key.
AppDependents(raw, app, key) ==
    {k \in Range(raw.order) : k[1] = app /\ key \in Range(raw.deps[k])}

OldRaw == raw_migrations["old"]
NewRaw == raw_migrations["new"]
OldGraph == graph["old"]
NewGraph == graph["new"]

\* The closure of the lowest common ancestor and the hashes of its nodes.
LcaClosure == Closure(OldRaw, app_name, lca_node)
LcaClosureHashes == {OldGraph.hash[k] : k \in LcaClosure}

\* A node of the closure of the lowest common ancestor from which a
\* divergent branch hangs.
DivergentAt(X) ==
    \E D \in AppDependents(OldRaw, app_name, X) :
        OldGraph.hash[D] \notin LcaClosureHashes

\* The hashes of the nodes reachable from the latest node of the new snapshot.
NewReachableHashes ==
    {NewGraph.hash[k] : k \in Closure(NewRaw, app_name, branch_node["new"])}

\* C1: when find_reverse_migration_node returns a node c, every node of the
\* closure of the lowest common ancestor that has a same-component dependent
\* whose fingerprint lies outside that closure is c or has c among its
\* same-component ancestors.
C1_CheckpointBelowEveryDivergence ==
    (pc = "done" /\ reverse_node # None) =>
        \A X \in LcaClosure :
            DivergentAt(X) => reverse_node \in Closure(OldRaw, app_name, X)

\* C2: when find_reverse_migration_node returns a node other than the lowest
\* common ancestor, that node has, in the old graph, a same-component
\* dependent whose fingerprint is not a fingerprint of a node reachable from
\* the latest node of the new snapshot.
C2_MovedOnlyByBranchAbsentFromNew ==
    (pc = "done" /\ reverse_node # None /\ reverse_node # lca_node) =>
        \E D \in AppDependents(OldRaw, app_name, reverse_node) :
            OldGraph.hash[D] \notin NewReachableHashes

\* The two maps are one dependency map written in two insertion orders.
SameMapPermuted ==
    /\ Range(OldRaw.order) = Range(NewRaw.order)
    /\ OldRaw.deps = NewRaw.deps

\* C3: build_graph on a dependency map and on the map with its keys permuted
\* gives every target-component node the same fingerprint.
C3_FingerprintIgnoresInsertionOrder ==
    (pc = "search" /\ SameMapPermuted) =>
        \A k \in Range(OldRaw.order) :
            k[1] = app_name => OldGraph.hash[k] = NewGraph.hash[k]

\* The target-component nodes of the built graphs, each with its side.
BuiltNodes ==
    UNION {{<<side, k>> : k \in {x \in DOMAIN graph[side].hash : x[1] = app_name}} :
              side \in Sides}

\* C4: after build_graph, two target-component nodes, of one graph or of two,
\* have equal fingerprints exactly when their same-component ancestor
\* closures are equal.
C4_FingerprintIsClosure ==
    pc = "search" =>
        \A m, n \in BuiltNodes :
            (graph[m[1]].hash[m[2]] = graph[n[1]].hash[n[2]])
                <=> (Closure(raw_migrations[m[1]], app_name, m[2])
                        = Closure(raw_migrations[n[1]], app_name, n[2]))

\* C5: a node find_lowest_common_ancestor returns has the same-component
\* ancestor closure of some node reachable from the latest node of the new
\* snapshot.
C5_LcaHistoryExistsInNew ==
    (pc \in {"descend", "done"} /\ lca_node # None) =>
        \E y \in Closure(NewRaw, app_name, branch_node["new"]) :
            Closure(NewRaw, app_name, y) = LcaClosure

\* The nodes walk_up_nodes yields from the latest node of the old snapshot,
\* and the hashes of those it yields from the latest node of the new one.
OldWalk == walk_up_nodes(OldGraph, branch_node["old"], app_name)
NewWalk == walk_up_nodes(NewGraph, branch_node["new"], app_name)
NewWalkHashes == {NewGraph.hash[NewWalk[i]] : i \in DOMAIN NewWalk}

\* The i-th node walked from the old latest node has a hash of the new walk.
CommonAt(i) == OldGraph.hash[OldWalk[i]] \in NewWalkHashes

\* C6: the node find_lowest_common_ancestor returns is the first node of the
\* walk from the old latest node whose fingerprint is a fingerprint of the
\* walk from the new latest node.
C6_LcaIsFirstCommonOfWalk ==
    (pc \in {"descend", "done"} /\ lca_node # None) =>
        \E i \in DOMAIN OldWalk :
            /\ OldWalk[i] = lca_node
            /\ CommonAt(i)
            /\ \A j \in 1..(i - 1) : ~CommonAt(j)

\* The search passed over a walked node before it returned a later one.
C6_Witness ==
    /\ pc = "descend"
    /\ \E i \in DOMAIN OldWalk : i > 1 /\ OldWalk[i] = lca_node

\* C7: find_reverse_migration_node returns None, without raising and without
\* running the dead-branch elimination, exactly when the walks from the two
\* latest nodes share no fingerprint; otherwise it returns a node.
C7_NoneIffNoSharedFingerprint ==
    pc = "done" =>
        /\ (reverse_node = None) <=> ~(\E i \in DOMAIN OldWalk : CommonAt(i))
        /\ error = ""
        /\ swept <=> (reverse_node # None)
        /\ reverse_node # None => reverse_node \in Range(OldRaw.order)

\* Two snapshots that each have migrations of the app and share none.
C7_Witness ==
    /\ pc = "done"
    /\ reverse_node = None
    /\ Len(OldWalk) > 1
    /\ Len(NewWalk) > 1

\* The nodes walked from the lowest common ancestor, and whether the i-th of
\* them has a same-component dependent whose hash none of them carries.
LcaWalk == walk_up_nodes(OldGraph, lca_node, app_name)
LcaWalkHashes == {OldGraph.hash[LcaWalk[i]] : i \in DOMAIN LcaWalk}
DeadAt(i) ==
    \E D \in AppDependents(OldRaw, app_name, LcaWalk[i]) :
        OldGraph.hash[D] \notin LcaWalkHashes

\* The target app has exactly one migration without same-component dependents.
SingleSink(raw) ==
    Cardinality({k \in Range(raw.order) :
                    k[1] = app_name /\ AppDependents(raw, app_name, k) = {}}) = 1

\* C8: eliminate_dead_branches returns the last node of the walk from the
\* lowest common ancestor that has a same-component dependent whose
\* fingerprint is outside the fingerprints of that walk, and the lowest common
\* ancestor itself when no walked node has one; for two identical single-sink
\* snapshots the result is the latest node.
C8_LastNodeWithDeadBranch ==
    (pc = "done" /\ swept) =>
        /\ IF \E i \in DOMAIN LcaWalk : DeadAt(i)
           THEN \E i \in DOMAIN LcaWalk :
                    /\ reverse_node = LcaWalk[i]
                    /\ DeadAt(i)
                    /\ \A j \in (i + 1)..Len(LcaWalk) : ~DeadAt(j)
           ELSE reverse_node = lca_node
        /\ (OldRaw = NewRaw /\ SingleSink(OldRaw)) => reverse_node = branch_node["old"]

\* Two walked nodes carry a dead branch and the later one is returned.
C8_Witness ==
    /\ pc = "done"
    /\ swept
    /\ \E i, j \in DOMAIN LcaWalk :
           i < j /\ DeadAt(i) /\ DeadAt(j) /\ reverse_node = LcaWalk[j]

\* Some migration of the app is among its own same-component ancestors.
HasCycle(raw, app) ==
    \E k \in Range(raw.order) :
        /\ k[1] = app
        /\ k \in ClosureFrom(raw, app, {d \in Range(raw.deps[k]) : d[1] = app})

\* C9: build_graph raises ValueError('No latest/bottom migration found!') for
\* every dependency map whose target-component entries contain a cycle.
C9_CycleRaises ==
    (pc # "read_old" /\ HasCycle(OldRaw, app_name)) =>
        (pc = "failed" /\ error = NoLatestError)

\* No migration of the app is free of same-component dependents.
NoSink(raw, app) ==
    ~ \E k \in Range(raw.order) : k[1] = app /\ AppDependents(raw, app, k) = {}

\* C10: build_graph raises the construction error exactly when no node of
\* the app has zero dependents inside the app, and otherwise returns a node
\* of the app without dependents of the app, whatever dependents it has in
\* other apps.
C10_RaisesIffNoSink ==
    pc # "read_old" =>
        /\ (pc = "failed") <=> NoSink(OldRaw, app_name)
        /\ (pc = "failed") <=> (error = NoLatestError)
        /\ pc # "failed" =>
               /\ branch_node["old"] \in Range(OldRaw.order)
               /\ branch_node["old"][1] = app_name
               /\ AppDependents(OldRaw, app_name, branch_node["old"]) = {}

\* build_graph returned a node that a migration of another app depends on.
C10_Witness ==
    /\ pc = "read_new"
    /\ \E k \in Range(OldRaw.order) :
           k[1] # app_name /\ branch_node["old"] \in Range(OldRaw.deps[k])

(***************************************************************************)
(* The walk of walk_up_nodes on the graph of a single build.               *)
(***************************************************************************)
\* No node of the sequence has a higher (number, name) key than the node
\* before it.
NonIncreasing(s) == \A i \in 2..Len(s) : ~ HeapKeyLess(s[i - 1], s[i])

\* Every dependency inside the app has a lower (number, name) key than the
\* migration that names it.
NumberedDownwards(raw, app) ==
    \A k \in Range(raw.order) :
        k[1] = app =>
            \A i \in DOMAIN raw.deps[k] :
                raw.deps[k][i][1] = app => HeapKeyLess(raw.deps[k][i], k)

\* C11 as stated: on every graph build_graph returns, the sequence
\* walk_up_nodes yields is in non-increasing (number, name) order.
C11_WalkIsNonIncreasing ==
    pc \in {"walking", "walked"} => NonIncreasing(walked)

\* C11: on every graph build_graph returns for a map in which every
\* dependency inside the app has a lower (number, name) key than its
\* dependent, the sequence walk_up_nodes yields is in non-increasing
\* (number, name) order.
C11_NonIncreasingWhenNumberedDownwards ==
    (pc \in {"walking", "walked"} /\ NumberedDownwards(OldRaw, app_name)) =>
        NonIncreasing(walked)

\* A finished walk of three nodes, two of them with the same number, on a
\* map numbered downwards.
C11_Witness ==
    /\ pc = "walked"
    /\ NumberedDownwards(OldRaw, app_name)
    /\ Len(walked) = 3
    /\ Number(walked[1]) = Number(walked[2])
    /\ Number(walked[3]) < Number(walked[2])

\* No element occurs twice in the sequence.
NoDuplicates(s) == \A i, j \in DOMAIN s : s[i] = s[j] => i = j

\* The nodes reachable from the start node of the walk along dependency
\* edges that stay inside the app, the start node included.
WalkClosure == Closure(OldRaw, app_name, bottom_node)

\* C12: on a graph build_graph returns, walk_up_nodes from any node of the
\* app terminates and yields every node reachable from the start node along
\* dependency edges inside the app exactly once, and no other node.  While
\* the loop runs, the nodes yielded and those on the heap are distinct nodes
\* of the reachable set, so that an iteration, which yields one more node,
\* can happen only as many times as that set has nodes; when the loop has
\* ended, the nodes yielded are the reachable set.
C12_WalkYieldsClosureOnce ==
    /\ pc \in {"walking", "walked"} =>
           /\ NoDuplicates(walked \o heap)
           /\ Range(walked \o heap) \subseteq WalkClosure
    /\ pc = "walked" =>
           /\ Range(walked) = WalkClosure
           /\ walked = walk_up_nodes(OldGraph, bottom_node, app_name)

\* A finished walk over a cycle of the app and past a migration of another
\* app.
C12_Witness ==
    /\ pc = "walked"
    /\ HasCycle(OldRaw, app_name)
    /\ Len(walked) >= 2
    /\ \E i \in DOMAIN walked :
           \E j \in DOMAIN OldRaw.deps[walked[i]] :
               OldRaw.deps[walked[i]][j][1] # app_name

(***************************************************************************)
(* The end of main.                                                        *)
(***************************************************************************)
\* The message the script test expects of a run that finds no node.
NoCommonError == "There are no migrations in common!"

\* C13: when find_reverse_migration_node yields no node, main ends with a
\* SystemExit that carries the message 'There are no migrations in common!'
\* and does not complete without output.
C13_ExitsWhenNothingInCommon ==
    (pc = "exited" /\ reverse_node = None) => error = NoCommonError

(***************************************************************************)
(* The two snapshots exchanged.                                            *)
(***************************************************************************)
\* find_reverse_migration_node(new_node, old_node, app_name)
SwappedReverseNode ==
    find_reverse_migration_node(NewGraph, branch_node["new"],
                                OldGraph, branch_node["old"], app_name)

\* C14: find_reverse_migration_node does not commute in its snapshots, since
\* only the ancestors of old are walked against the fingerprints of new: the
\* node main gets is the value of the function on (old, new) and is a node
\* walked from the latest node of old, and the value on (new, old) is a node
\* walked from the latest node of new.
C14_ResultIsWalkedFromItsFirstSnapshot ==
    pc \in {"done", "exited"} =>
        /\ reverse_node = find_reverse_migration_node(
                              OldGraph, branch_node["old"],
                              NewGraph, branch_node["new"], app_name)
        /\ reverse_node # None => reverse_node \in Range(OldWalk)
        /\ SwappedReverseNode # None => SwappedReverseNode \in Range(NewWalk)

\* Two snapshots, both written lowest migration first, for which the function
\* returns nodes of different names in the two orders.
C14_Witness ==
    /\ pc = "done"
    /\ OldRaw.order = TestOrder(Range(OldRaw.order))
    /\ NewRaw.order = TestOrder(Range(NewRaw.order))
    /\ reverse_node # None
    /\ SwappedReverseNode # None
    /\ reverse_node # SwappedReverseNode

(***************************************************************************)
(* The graph of a single build.                                            *)
(***************************************************************************)
\* C15: in every graph build_graph returns the reverse edges are the inverse
\* of the forward edges: for all nodes X and Y, Y is among the dependencies
\* of X exactly when X is among the dependents of Y, and the dependencies of
\* X are the keys the dependency map gives for X, in the order of the map.
C15_DependentsInvertDependencies ==
    pc = "read_new" =>
        /\ \A X, Y \in Range(OldRaw.order) :
               (Y \in Range(OldGraph.dependencies[X]))
                   <=> (X \in Range(OldGraph.dependents[Y]))
        /\ \A X \in Range(OldRaw.order) :
               OldGraph.dependencies[X] = OldRaw.deps[X]

\* A returned graph with a node of two dependencies, a node of two
\* dependents and an edge between the apps.
C15_Witness ==
    /\ pc = "read_new"
    /\ \E X \in Range(OldRaw.order) : Len(OldGraph.dependencies[X]) = 2
    /\ \E Y \in Range(OldRaw.order) : Len(OldGraph.dependents[Y]) = 2
    /\ \E X \in Range(OldRaw.order) :
           \E i \in DOMAIN OldGraph.dependencies[X] :
               OldGraph.dependencies[X][i][1] # X[1]

\* The nodes of the app in the graph of the build.
AppNodes == {k \in Range(OldRaw.order) : k[1] = app_name}

\* C16: after build_graph returns, whatever the insertion order of the map and
\* even when the app contains a cycle, every node of the app has a non-empty
\* fingerprint and no two distinct nodes of the app have the same fingerprint.
C16_FingerprintsNonEmptyAndDistinct ==
    pc = "read_new" =>
        \A m, n \in AppNodes :
            /\ OldGraph.hash[m] # EmptyHash
            /\ m # n => OldGraph.hash[m] # OldGraph.hash[n]

\* A returned graph of three nodes of the app, with a cycle, from a map that
\* is not written lowest migration first.
C16_Witness ==
    /\ pc = "read_new"
    /\ Cardinality(AppNodes) = 3
    /\ HasCycle(OldRaw, app_name)
    /\ OldRaw.order # TestOrder(Range(OldRaw.order))

====
